---- MODULE Spec2Model ----
(***************************************************************************)
(* A model of the FastAPI service in src/app.py (StrangeMetrics backend):  *)
(* the URL parser, the paginated pull-request fetch, the pull-request      *)
(* endpoint, the commit-frequency endpoint and the contribution heatmap.   *)
(*                                                                         *)
(* Upstream (the GitHub REST API) is the environment: every upstream       *)
(* request is answered by a response the environment chooses, and the      *)
(* request together with its response is recorded in `log`.                *)
(*                                                                         *)
(* Text is modelled as sequences: a URL is a sequence of one-character     *)
(* strings, a formatted date is a sequence of character codes (so that     *)
(* Python's string ordering, used by min() and max(), is the               *)
(* lexicographic order of the sequences).                                  *)
(***************************************************************************)
EXTENDS Integers, Sequences, FiniteSets, TLC

(***************************************************************************)
(* Bounds of the model.                                                    *)
(***************************************************************************)
\* the environment stops serving full pages after this many pages
MaxPages == 2
\* short pages have 0..MaxShort items
MaxShort == 2
\* commits upstream may hold beyond the single response get_commits reads
MaxRest == 2
\* URL inputs of the parser are made of at most this many tokens
MaxUrlTokens == 5

(***************************************************************************)
(* Program constants.                                                      *)
(***************************************************************************)
\* "per_page": 100 and `len(data) < 100`
PerPage == 100

(***************************************************************************)
(* Generic helpers.                                                        *)
(***************************************************************************)
Last(s) == s[Len(s)]

RECURSIVE Flatten(_)
Flatten(ss) == IF ss = <<>> THEN <<>> ELSE Head(ss) \o Flatten(Tail(ss))

RECURSIVE SeqsUpTo(_, _)
SeqsUpTo(S, n) ==
  IF n = 0 THEN {<<>>}
  ELSE LET shorter == SeqsUpTo(S, n - 1)
       IN shorter \cup {Append(s, x) : s \in shorter, x \in S}

(***************************************************************************)
(* parse_github_url                                                        *)
(***************************************************************************)
\* str.rstrip('/'): drops every trailing '/'
RECURSIVE RStripSlash(_)
RStripSlash(s) ==
  IF s # <<>> /\ Last(s) = "/" THEN RStripSlash(SubSeq(s, 1, Len(s) - 1))
  ELSE s

DotGit == <<".", "g", "i", "t">>

\* str.endswith('.git')
EndsWithDotGit(s) == Len(s) >= 4 /\ SubSeq(s, Len(s) - 3, Len(s)) = DotGit

\* str.split('/'): the segments between the '/' characters, empty ones kept;
\* `cur` is the segment being read
RECURSIVE SplitSlash(_, _)
SplitSlash(s, cur) ==
  IF s = <<>> THEN <<cur>>
  ELSE IF Head(s) = "/" THEN <<cur>> \o SplitSlash(Tail(s), <<>>)
  ELSE SplitSlash(Tail(s), Append(cur, Head(s)))

CleanUrl(u) ==
  LET clean == RStripSlash(u)
  IN IF EndsWithDotGit(clean) THEN SubSeq(clean, 1, Len(clean) - 4) ELSE clean

\* the result of parse_github_url: ok = FALSE stands for the ValueError
parse_github_url(u) ==
  LET parts == SplitSlash(CleanUrl(u), <<>>)
  IN IF Len(parts) < 2
     THEN [ok |-> FALSE, owner |-> <<>>, repo |-> <<>>]
     ELSE [ok |-> TRUE, owner |-> parts[Len(parts) - 1], repo |-> parts[Len(parts)]]

(***************************************************************************)
(* Inputs of the parser.                                                   *)
(***************************************************************************)
UrlTokens == {<<"a">>, <<"/">>, DotGit, <<"h", ":">>}

UrlInputs == {Flatten(ts) : ts \in SeqsUpTo(UrlTokens, MaxUrlTokens)}

\* what str(request.url) can be for a validated HttpUrl: scheme, host, path
HttpUrls ==
  { <<"h", ":", "/", "/", "a", "/", "o", "/", "r">>,
    <<"h", ":", "/", "/", "a", "/", "o", "/", "r", ".", "g", "i", "t", "/">> }

(***************************************************************************)
(* Calendar arithmetic of Python's datetime (proleptic Gregorian).         *)
(* A datetime is [y, m, d]: the time of day of a commit enters none of the *)
(* formats the endpoints use, and the upstream timestamps are UTC ("Z").   *)
(***************************************************************************)
IsLeap(y) == y % 4 = 0 /\ (y % 100 # 0 \/ y % 400 = 0)

DaysInMonth(y, m) ==
  IF m = 2 THEN (IF IsLeap(y) THEN 29 ELSE 28)
  ELSE IF m \in {4, 6, 9, 11} THEN 30 ELSE 31

RECURSIVE DaysBeforeMonth(_, _)
DaysBeforeMonth(y, m) ==
  IF m = 1 THEN 0 ELSE DaysBeforeMonth(y, m - 1) + DaysInMonth(y, m - 1)

DaysBeforeYear(y) ==
  LET p == y - 1 IN (p * 365) + (p \div 4) - (p \div 100) + (p \div 400)

\* date.toordinal(): 0001-01-01 is day 1
ToOrdinal(dt) == DaysBeforeYear(dt.y) + DaysBeforeMonth(dt.y, dt.m) + dt.d

\* date.weekday(): Monday is 0, Sunday is 6
Weekday(dt) == (ToOrdinal(dt) + 6) % 7

\* tm_yday - 1: days since January 1st
YDay0(dt) == DaysBeforeMonth(dt.y, dt.m) + dt.d - 1

\* %U: week of the year, Sunday as the first day of the week
WeekOfYearSunday(dt) == (YDay0(dt) + 7 - ((Weekday(dt) + 1) % 7)) \div 7

\* %W: week of the year, Monday as the first day of the week; the days
\* before the first Monday are week 0
WeekOfYearMonday(dt) == (YDay0(dt) + 7 - Weekday(dt)) \div 7

\* a day step that takes every February to have 28 days
AddDayFebruary28(dt) ==
  IF dt.d < (IF dt.m = 2 THEN 28 ELSE DaysInMonth(dt.y, dt.m)) THEN [dt EXCEPT !.d = dt.d + 1]
  ELSE IF dt.m < 12 THEN [y |-> dt.y, m |-> dt.m + 1, d |-> 1]
  ELSE [y |-> dt.y + 1, m |-> 1, d |-> 1]

\* curr += timedelta(days=1)
AddDay(dt) ==
  IF dt.d < DaysInMonth(dt.y, dt.m) THEN [dt EXCEPT !.d = dt.d + 1]
  ELSE IF dt.m < 12 THEN [y |-> dt.y, m |-> dt.m + 1, d |-> 1]
  ELSE [y |-> dt.y + 1, m |-> 1, d |-> 1]

\* curr <= last
DateLE(a, b) ==
  \/ a.y < b.y
  \/ a.y = b.y /\ a.m < b.m
  \/ a.y = b.y /\ a.m = b.m /\ a.d <= b.d

(***************************************************************************)
(* Formatting and parsing of dates.  A string is a sequence of character   *)
(* codes: '0'..'9' are 48..57 and '-' is 45.                               *)
(***************************************************************************)
Dash == <<45>>

\* n written in decimal, zero-padded to w characters
RECURSIVE Pad(_, _)
Pad(n, w) == IF w = 0 THEN <<>> ELSE Append(Pad(n \div 10, w - 1), 48 + (n % 10))

\* the decimal number a string of digits denotes
RECURSIVE Num(_)
Num(s) ==
  IF s = <<>> THEN 0 ELSE 10 * Num(SubSeq(s, 1, Len(s) - 1)) + (Last(s) - 48)

\* a table lookup that falls back to the day format
FormatOfDefaultsToDay(frequency) ==
  CASE frequency = "week" -> "%Y-%W"
    [] frequency = "month" -> "%Y-%m"
    [] OTHER -> "%Y-%m-%d"

\* the `fmt` table of get_commits; "none" stands for the missing entry
FormatOf(frequency) ==
  CASE frequency = "day" -> "%Y-%m-%d"
    [] frequency = "week" -> "%Y-%W"
    [] frequency = "month" -> "%Y-%m"
    [] OTHER -> "none"

\* dt.strftime(fmt)
strftime(dt, fmt) ==
  CASE fmt = "%Y-%m-%d" -> Pad(dt.y, 4) \o Dash \o Pad(dt.m, 2) \o Dash \o Pad(dt.d, 2)
    [] fmt = "%Y-%W" -> Pad(dt.y, 4) \o Dash \o Pad(WeekOfYearMonday(dt), 2)
    [] fmt = "%Y-%m" -> Pad(dt.y, 4) \o Dash \o Pad(dt.m, 2)

\* datetime.fromisoformat of a "YYYY-MM-DD" string
fromisoformat(s) ==
  [y |-> Num(SubSeq(s, 1, 4)), m |-> Num(SubSeq(s, 6, 7)), d |-> Num(SubSeq(s, 9, 10))]

\* Python's order on strings: a < b
RECURSIVE StrLess(_, _)
StrLess(a, b) ==
  IF b = <<>> THEN FALSE
  ELSE IF a = <<>> THEN TRUE
  ELSE IF Head(a) # Head(b) THEN Head(a) < Head(b)
  ELSE StrLess(Tail(a), Tail(b))

\* min(counts) and max(counts): the least and the greatest key
MinKey(counts) == CHOOSE k \in DOMAIN counts : \A j \in DOMAIN counts : ~StrLess(j, k)
MaxKey(counts) == CHOOSE k \in DOMAIN counts : \A j \in DOMAIN counts : ~StrLess(k, j)

(***************************************************************************)
(* Upstream data.                                                          *)
(***************************************************************************)
\* author dates the commits of the modelled repositories carry
CommitDates ==
  << [y |-> 2023, m |-> 12, d |-> 30],
     [y |-> 2023, m |-> 12, d |-> 31],
     [y |-> 2024, m |-> 1, d |-> 1],
     [y |-> 2024, m |-> 1, d |-> 7],
     [y |-> 2024, m |-> 3, d |-> 2],
     [y |-> 2024, m |-> 3, d |-> 3],
     [y |-> 2024, m |-> 3, d |-> 4] >>

NumDates == Len(CommitDates)

\* the step, in CommitDates, from one commit of a page to the next: all the
\* commits of a page on one day, or on successive days of CommitDates
Strides == {0, 1}

\* a page of commits is described by the date of its first commit and the
\* step from one commit to the next: pat = start + NumDates * stride
CommitPatterns == {start + (NumDates * stride) : start \in 0 .. (NumDates - 1), stride \in Strides}

\* the full pages of commits have their commits on successive days
FullCommitPatterns == {pat \in CommitPatterns : pat \div NumDates = 1}

\* a page of pull requests is described by which of them are merged:
\* all of them (1) or every second one (2)
PrPatterns == {1, 2}

\* item i of page `page` of the commit list:
\* c["commit"]["author"]["date"], and an identity
CommitItem(page, i, pat) ==
  [id |-> <<page, i>>,
   date |-> CommitDates[(((pat % NumDates) + ((i - 1) * (pat \div NumDates))) % NumDates) + 1]]

\* item i of page `page` of a pull-request list: whether merged_at is set
PrItem(page, i, pat) ==
  [id |-> <<page, i>>, merged_at |-> ((i % pat) = 0)]

\* an upstream response: status code, shape of the decoded body ("list", or
\* "dict" for an error object), and for a list its length and pattern
Failure(status) == [status |-> status, kind |-> "dict", len |-> 0, pat |-> 0]
ErrorObject == [status |-> 200, kind |-> "dict", len |-> 0, pat |-> 0]
ListOf(n, pat) == [status |-> 200, kind |-> "list", len |-> n, pat |-> IF n = 0 THEN 0 ELSE pat]

FailureStatuses == {403, 404}

\* the responses upstream can give to a request for page `page`: a failure,
\* an error object, a short page, or (only while upstream has more pages) a
\* full page
Responses(page, patterns, fullPatterns) ==
  {Failure(st) : st \in FailureStatuses} \cup {ErrorObject}
    \cup {ListOf(n, pat) : n \in 0 .. MaxShort, pat \in patterns}
    \cup (IF page < MaxPages THEN {ListOf(PerPage, pat) : pat \in fullPatterns} ELSE {})

\* resp.json() of a list response
CommitBody(page, r) == [i \in 1 .. r.len |-> CommitItem(page, i, r.pat)]
PrBody(page, r) == [i \in 1 .. r.len |-> PrItem(page, i, r.pat)]

(***************************************************************************)
(* Aggregation.                                                            *)
(***************************************************************************)
EmptyCounts == [k \in {} |-> 0]

\* a tally that stores 1 instead of adding 1
IncrementOverwrites(counts, key) ==
  [k \in DOMAIN counts \cup {key} |-> IF k = key THEN 1 ELSE counts[k]]

\* counts[key] += 1 on a defaultdict(int)
Increment(counts, key) ==
  IF key \in DOMAIN counts THEN [counts EXCEPT ![key] = @ + 1]
  ELSE [k \in DOMAIN counts \cup {key} |-> IF k = key THEN 1 ELSE counts[k]]

\* for c in commits: counts[dt.strftime(fmt)] += 1, for the commits lo..hi in
\* order, starting from `counts`.  The range is halved, and the tally of the
\* first half is computed (its domain is looked at) before the second half is
\* entered, to keep the evaluation shallow; the commits are still tallied one
\* by one from first to last.
RECURSIVE TallyRange(_, _, _, _, _)
TallyRange(commits, lo, hi, fmt, counts) ==
  IF lo > hi THEN counts
  ELSE IF lo = hi THEN Increment(counts, strftime(commits[lo].date, fmt))
  ELSE LET mid == (lo + hi) \div 2
           first == TallyRange(commits, lo, mid, fmt, counts)
       IN IF DOMAIN first = {} THEN first
          ELSE TallyRange(commits, mid + 1, hi, fmt, first)

\* a tally that misses the first commit
TallySkipsFirst(commits, fmt) == TallyRange(commits, 2, Len(commits), fmt, EmptyCounts)

Tally(commits, fmt) == TallyRange(commits, 1, Len(commits), fmt, EmptyCounts)

\* while curr <= last: result.append({date, commits}); curr += one day
RECURSIVE HeatmapWalk(_, _, _)
HeatmapWalk(curr, last, counts) ==
  IF DateLE(curr, last)
  THEN LET day == strftime(curr, "%Y-%m-%d")
       IN <<[date |-> day, commits |-> IF day \in DOMAIN counts THEN counts[day] ELSE 0]>>
            \o HeatmapWalk(AddDay(curr), last, counts)
  ELSE <<>>

\* the part of get_contribution_heatmap after the fetch loop
HeatmapOf(commits) ==
  LET counts == Tally(commits, "%Y-%m-%d")
  IN IF DOMAIN counts # {}
     THEN HeatmapWalk(fromisoformat(MinKey(counts)), fromisoformat(MaxKey(counts)), counts)
     ELSE <<>>

\* the part of get_pull_requests after the two fetches
PrCounts(open, closed) ==
  LET merged == Cardinality({i \in 1 .. Len(closed) : closed[i].merged_at})
  IN [open |-> Len(open), closed_unmerged |-> Len(closed) - merged, merged |-> merged]

NoPrCounts == [open |-> 0, closed_unmerged |-> 0, merged |-> 0]

(***************************************************************************)
(* One iteration of the loop of fetch_all_prs, given the response to the   *)
(* request for `page`: either the function returns `value`, or the loop    *)
(* goes on with all_prs = value and the next page.                         *)
(***************************************************************************)
\* a step that keeps the pages read so far when a page fails
FetchAllPrsStepLenient(r, acc, page) ==
  IF r.status # 200 \/ r.kind # "list" \/ r.len = 0
  THEN [returns |-> TRUE, value |-> acc, page |-> page]
  ELSE IF r.len < PerPage
  THEN [returns |-> TRUE, value |-> acc \o PrBody(page, r), page |-> page]
  ELSE [returns |-> FALSE, value |-> acc \o PrBody(page, r), page |-> page + 1]

\* a step that tests for the last page before it appends the page
FetchAllPrsStepDropsShortPage(r, acc, page) ==
  IF r.status # 200
  THEN [returns |-> TRUE, value |-> <<>>, page |-> page]
  ELSE IF r.kind # "list" \/ r.len < PerPage
  THEN [returns |-> TRUE, value |-> acc, page |-> page]
  ELSE [returns |-> FALSE, value |-> acc \o PrBody(page, r), page |-> page + 1]

FetchAllPrsStep(r, acc, page) ==
  IF r.status # 200
  THEN [returns |-> TRUE, value |-> <<>>, page |-> page]
  ELSE IF r.kind # "list" \/ r.len = 0
  THEN [returns |-> TRUE, value |-> acc, page |-> page]
  ELSE IF r.len < PerPage
  THEN [returns |-> TRUE, value |-> acc \o PrBody(page, r), page |-> page]
  ELSE [returns |-> FALSE, value |-> acc \o PrBody(page, r), page |-> page + 1]

(***************************************************************************)
(* One iteration of the fetch loop of get_contribution_heatmap.  A decoded *)
(* body that is an error object is not falsy, so its keys are appended to  *)
(* all_commits (`bad`), and the loop ends as it has fewer than 100 keys.   *)
(***************************************************************************)
\* a step that drops the pages read so far when a page fails
HeatmapFetchStepStrict(r, acc, page) ==
  IF r.status # 200
  THEN [breaks |-> TRUE, value |-> <<>>, page |-> page, bad |-> FALSE]
  ELSE IF r.kind # "list"
  THEN [breaks |-> TRUE, value |-> acc, page |-> page, bad |-> TRUE]
  ELSE IF r.len = 0
  THEN [breaks |-> TRUE, value |-> acc, page |-> page, bad |-> FALSE]
  ELSE IF r.len < PerPage
  THEN [breaks |-> TRUE, value |-> acc \o CommitBody(page, r), page |-> page, bad |-> FALSE]
  ELSE [breaks |-> FALSE, value |-> acc \o CommitBody(page, r), page |-> page + 1, bad |-> FALSE]

\* a step that ends the loop on an empty page only, not on a short one
HeatmapFetchStepNoShortStop(r, acc, page) ==
  IF r.status # 200
  THEN [breaks |-> TRUE, value |-> acc, page |-> page, bad |-> FALSE]
  ELSE IF r.kind # "list"
  THEN [breaks |-> TRUE, value |-> acc, page |-> page, bad |-> TRUE]
  ELSE IF r.len = 0
  THEN [breaks |-> TRUE, value |-> acc, page |-> page, bad |-> FALSE]
  ELSE [breaks |-> FALSE, value |-> acc \o CommitBody(page, r), page |-> page + 1, bad |-> FALSE]

HeatmapFetchStep(r, acc, page) ==
  IF r.status # 200
  THEN [breaks |-> TRUE, value |-> acc, page |-> page, bad |-> FALSE]
  ELSE IF r.kind # "list"
  THEN [breaks |-> TRUE, value |-> acc, page |-> page, bad |-> TRUE]
  ELSE IF r.len = 0
  THEN [breaks |-> TRUE, value |-> acc, page |-> page, bad |-> FALSE]
  ELSE IF r.len < PerPage
  THEN [breaks |-> TRUE, value |-> acc \o CommitBody(page, r), page |-> page, bad |-> FALSE]
  ELSE [breaks |-> FALSE, value |-> acc \o CommitBody(page, r), page |-> page + 1, bad |-> FALSE]

(***************************************************************************)
(* State.                                                                  *)
(***************************************************************************)
VARIABLES
  pc,               \* "idle", "fetch_open", "fetch_closed", "fetch_commits", "done"
  endpoint,         \* the handler serving the request
  url,              \* str(request.url), or the input of the parser
  parsed,           \* the result of parse_github_url(url)
  frequency,        \* request.frequency
  page,             \* the page the running loop requests next
  all_prs,          \* accumulator of the running fetch_all_prs
  open_prs,         \* fetch_all_prs(owner, repo, "open")
  closed_prs,       \* fetch_all_prs(owner, repo, "closed")
  all_commits,      \* accumulator of the heatmap's fetch loop
  log,              \* the upstream requests issued, with their responses
  later_commits,    \* commits upstream holds on the pages after the one get_commits read
  http_status,      \* status of the answer of the endpoint, 0 while there is none
  detail,           \* detail of an error answer
  pr_result,        \* answer of get_pull_requests
  commit_frequency, \* answer of get_commits
  heatmap           \* answer of get_contribution_heatmap

vars ==
  <<pc, endpoint, url, parsed, frequency, page, all_prs, open_prs, closed_prs,
    all_commits, log, later_commits, http_status, detail, pr_result,
    commit_frequency, heatmap>>

NotParsed == [ok |-> FALSE, owner |-> <<>>, repo |-> <<>>]

Blank ==
  /\ pc = "idle"
  /\ endpoint = "none"
  /\ parsed = NotParsed
  /\ frequency = "day"
  /\ page = 1
  /\ all_prs = <<>>
  /\ open_prs = <<>>
  /\ closed_prs = <<>>
  /\ all_commits = <<>>
  /\ log = <<>>
  /\ later_commits = 0
  /\ http_status = 0
  /\ detail = ""
  /\ pr_result = NoPrCounts
  /\ commit_frequency = EmptyCounts
  /\ heatmap = <<>>

\* the service waits for a request
Init == Blank /\ url = <<>>

\* a request to upstream and the response it got; page = 0 and per_page = 0
\* when the request carries no such parameter
Request(resource, state, pg, per_page, r) ==
  [resource |-> resource, state |-> state, page |-> pg, per_page |-> per_page, resp |-> r]

\* what the values of request.frequency are drawn from
Frequencies == {"day", "week", "month", "year", "None"}

\* the responses to the one request of get_commits: a first page
FirstPageResponses ==
  {Failure(st) : st \in FailureStatuses} \cup {ErrorObject}
    \cup {ListOf(n, pat) : n \in 0 .. MaxShort, pat \in CommitPatterns}

\* an unhandled exception in a handler: the framework answers 500
Crash ==
  /\ pc' = "done"
  /\ http_status' = 500
  /\ detail' = "Internal Server Error"

(***************************************************************************)
(* get_pull_requests                                                       *)
(***************************************************************************)
\* the handler up to the first upstream request
GetPullRequests ==
  /\ pc = "idle"
  /\ \E u \in HttpUrls :
       /\ url' = u
       /\ parsed' = parse_github_url(u)
       /\ endpoint' = "pull_requests"
       /\ IF parse_github_url(u).ok
          THEN pc' = "fetch_open" /\ UNCHANGED <<http_status, detail>>
          ELSE Crash
  /\ UNCHANGED <<frequency, page, all_prs, open_prs, closed_prs, all_commits, log,
                 later_commits, pr_result, commit_frequency, heatmap>>

\* one request of fetch_all_prs(owner, repo, "open"); when it returns, the
\* fetch of the closed ones starts
FetchOpenPrs ==
  /\ pc = "fetch_open"
  /\ \E r \in Responses(page, PrPatterns, PrPatterns) :
       LET step == FetchAllPrsStep(r, all_prs, page)
       IN /\ log' = Append(log, Request("pulls", "open", page, PerPage, r))
          /\ IF step.returns
             THEN /\ open_prs' = step.value
                  /\ all_prs' = <<>>
                  /\ page' = 1
                  /\ pc' = "fetch_closed"
             ELSE /\ all_prs' = step.value
                  /\ page' = step.page
                  /\ UNCHANGED <<open_prs, pc>>
  /\ UNCHANGED <<endpoint, url, parsed, frequency, closed_prs, all_commits,
                 later_commits, http_status, detail, pr_result, commit_frequency,
                 heatmap>>

\* one request of fetch_all_prs(owner, repo, "closed"); when it returns, the
\* handler counts and answers
FetchClosedPrs ==
  /\ pc = "fetch_closed"
  /\ \E r \in Responses(page, PrPatterns, PrPatterns) :
       LET step == FetchAllPrsStep(r, all_prs, page)
       IN /\ log' = Append(log, Request("pulls", "closed", page, PerPage, r))
          /\ IF step.returns
             THEN /\ closed_prs' = step.value
                  /\ all_prs' = <<>>
                  /\ pr_result' = PrCounts(open_prs, step.value)
                  /\ http_status' = 200
                  /\ pc' = "done"
                  /\ UNCHANGED page
             ELSE /\ all_prs' = step.value
                  /\ page' = step.page
                  /\ UNCHANGED <<closed_prs, pr_result, http_status, pc>>
  /\ UNCHANGED <<endpoint, url, parsed, frequency, open_prs, all_commits,
                 later_commits, detail, commit_frequency, heatmap>>

(***************************************************************************)
(* get_commits                                                             *)
(***************************************************************************)
GetCommits ==
  /\ pc = "idle"
  /\ \E u \in HttpUrls, f \in Frequencies, r \in FirstPageResponses, rest \in 0 .. MaxRest :
       /\ rest > 0 => (r.status = 200 /\ r.kind = "list" /\ r.len > 0)
       /\ url' = u
       /\ parsed' = parse_github_url(u)
       /\ endpoint' = "commits"
       /\ frequency' = f
       /\ IF ~parse_github_url(u).ok
          THEN Crash /\ UNCHANGED <<log, later_commits, commit_frequency>>
          ELSE /\ log' = Append(log, Request("commits", "", 0, 0, r))
               /\ later_commits' = rest
               /\ pc' = "done"
               /\ IF r.status # 200
                  THEN /\ http_status' = 400
                       /\ detail' = "Failed to fetch commits"
                       /\ UNCHANGED commit_frequency
                  ELSE IF FormatOf(f) = "none"
                  THEN /\ http_status' = 400
                       /\ detail' = "Invalid frequency"
                       /\ UNCHANGED commit_frequency
                  ELSE IF r.kind # "list"
                  THEN \* iterating the error object yields its keys: TypeError
                       /\ http_status' = 500
                       /\ detail' = "Internal Server Error"
                       /\ UNCHANGED commit_frequency
                  ELSE /\ http_status' = 200
                       /\ commit_frequency' = Tally(CommitBody(1, r), FormatOf(f))
                       /\ UNCHANGED detail
  /\ UNCHANGED <<page, all_prs, open_prs, closed_prs, all_commits, pr_result, heatmap>>

(***************************************************************************)
(* get_contribution_heatmap                                                *)
(***************************************************************************)
\* the handler up to the first upstream request
GetContributionHeatmap ==
  /\ pc = "idle"
  /\ \E u \in HttpUrls :
       /\ url' = u
       /\ parsed' = parse_github_url(u)
       /\ endpoint' = "contribution_heatmap"
       /\ IF parse_github_url(u).ok
          THEN pc' = "fetch_commits" /\ UNCHANGED <<http_status, detail>>
          ELSE Crash
  /\ UNCHANGED <<frequency, page, all_prs, open_prs, closed_prs, all_commits, log,
                 later_commits, pr_result, commit_frequency, heatmap>>

\* one request of the fetch loop; when the loop ends, the handler groups the
\* commits by day, fills the gaps and answers
FetchHeatmapCommits ==
  /\ pc = "fetch_commits"
  /\ \E r \in Responses(page, CommitPatterns, FullCommitPatterns) :
       LET step == HeatmapFetchStep(r, all_commits, page)
       IN /\ log' = Append(log, Request("commits", "", page, PerPage, r))
          /\ all_commits' = step.value
          /\ page' = step.page
          /\ IF ~step.breaks
             THEN UNCHANGED <<pc, http_status, detail, heatmap>>
             ELSE IF step.bad
             THEN \* c["commit"] on a key of the error object: TypeError
                  Crash /\ UNCHANGED heatmap
             ELSE /\ heatmap' = HeatmapOf(step.value)
                  /\ http_status' = 200
                  /\ pc' = "done"
                  /\ UNCHANGED detail
  /\ UNCHANGED <<endpoint, url, parsed, frequency, all_prs, open_prs, closed_prs,
                 later_commits, pr_result, commit_frequency>>

Next ==
  \/ GetPullRequests
  \/ FetchOpenPrs
  \/ FetchClosedPrs
  \/ GetCommits
  \/ GetContributionHeatmap
  \/ FetchHeatmapCommits

Spec == Init /\ [][Next]_vars

\* a handler that has started a fetch loop keeps running: each loop iteration
\* is taken once its request has been answered
SpecFair ==
  /\ Spec
  /\ WF_vars(FetchOpenPrs)
  /\ WF_vars(FetchClosedPrs)
  /\ WF_vars(FetchHeatmapCommits)

(***************************************************************************)
(* The parser on its own: the input is any string of UrlInputs.            *)
(***************************************************************************)
InitParse == Blank /\ url \in UrlInputs

ParseGithubUrl ==
  /\ pc = "idle"
  /\ parsed' = parse_github_url(url)
  /\ endpoint' = "parse_github_url"
  /\ pc' = "done"
  /\ UNCHANGED <<url, frequency, page, all_prs, open_prs, closed_prs, all_commits,
                 log, later_commits, http_status, detail, pr_result,
                 commit_frequency, heatmap>>

NextParse == ParseGithubUrl

SpecParse == InitParse /\ [][NextParse]_vars

(***************************************************************************)
(* Properties.                                                             *)
(***************************************************************************)
Done(e) == pc = "done" /\ endpoint = e

\* the requests of the log made for the pull requests in state st
PrLog(st) == SelectSeq(log, LAMBDA q : q.resource = "pulls" /\ q.state = st)

\* whether the pagination of state st has ended, and what it returned
PrFetched(st) ==
  /\ endpoint = "pull_requests"
  /\ IF st = "open" THEN pc \in {"fetch_closed", "done"} ELSE pc = "done"

PrReturned(st) == IF st = "open" THEN open_prs ELSE closed_prs

PrFailed(st) == \E i \in 1 .. Len(PrLog(st)) : PrLog(st)[i].resp.status # 200

AllLists(entries) ==
  \A i \in 1 .. Len(entries) : entries[i].resp.status = 200 /\ entries[i].resp.kind = "list"

\* the bodies of the first n logged list responses, one after the other
RECURSIVE PrPagesUpTo(_, _)
PrPagesUpTo(entries, n) ==
  IF n = 0 THEN <<>>
  ELSE PrPagesUpTo(entries, n - 1)
         \o (IF entries[n].resp.status = 200 /\ entries[n].resp.kind = "list"
             THEN PrBody(entries[n].page, entries[n].resp) ELSE <<>>)

RECURSIVE CommitPagesUpTo(_, _)
CommitPagesUpTo(entries, n) ==
  IF n = 0 THEN <<>>
  ELSE CommitPagesUpTo(entries, n - 1)
         \o (IF entries[n].resp.status = 200 /\ entries[n].resp.kind = "list"
             THEN CommitBody(entries[n].page, entries[n].resp) ELSE <<>>)

\* pages 1..k were requested in order, all full but the last, which is short
PagesUpToFirstShort(entries) ==
  /\ Len(entries) >= 1
  /\ \A i \in 1 .. Len(entries) :
       /\ entries[i].page = i
       /\ (i < Len(entries)) => entries[i].resp.len = PerPage
  /\ Last(entries).resp.len < PerPage

NumMerged(prs) == Cardinality({i \in 1 .. Len(prs) : prs[i].merged_at})

\* what a pagination contributes: nothing when a page of it failed, else the
\* list pages it read
PrContribution(st) ==
  IF PrFailed(st) THEN <<>> ELSE PrPagesUpTo(PrLog(st), Len(PrLog(st)))

\* C1 (as claimed): if a page of either pull-request pagination answers with a
\* non-200 status, the endpoint answers open = 0, closed_unmerged = 0 and
\* merged = 0, and it never answers with an error.
C1_AllZeroOnFailure ==
  Done("pull_requests") =>
    /\ http_status = 200
    /\ (PrFailed("open") \/ PrFailed("closed")) => pr_result = NoPrCounts

\* C1 (amended): a pull-request pagination with a non-200 page contributes
\* nothing to the answer (a failed open pagination gives open = 0, a failed
\* closed one gives closed_unmerged = 0 and merged = 0), the counts of the
\* other pagination are those of the pages it read, and the endpoint never
\* answers with an error.
C1_FailedPaginationCountsZero ==
  Done("pull_requests") =>
    /\ http_status = 200
    /\ PrFailed("open") => pr_result.open = 0
    /\ PrFailed("closed") => (pr_result.closed_unmerged = 0 /\ pr_result.merged = 0)
    /\ pr_result.open = Len(PrContribution("open"))
    /\ pr_result.merged = NumMerged(PrContribution("closed"))
    /\ pr_result.closed_unmerged =
         Len(PrContribution("closed")) - NumMerged(PrContribution("closed"))

\* the open pagination fails on its second page while the closed one succeeds
C1_Witness ==
  /\ Done("pull_requests")
  /\ PrFailed("open")
  /\ Len(PrLog("open")) = 2
  /\ ~PrFailed("closed")
  /\ pr_result.merged > 0
  /\ pr_result.closed_unmerged > 0

\* C2 (as claimed): a 200 page of fetch_all_prs whose body is not a list ends
\* the fetch as a non-200 page does: the function returns the empty list, not
\* the items of the earlier pages.
C2_NonListIsAFailure ==
  \A st \in {"open", "closed"} :
    (/\ PrFetched(st)
     /\ Last(PrLog(st)).resp.status = 200
     /\ Last(PrLog(st)).resp.kind # "list") => PrReturned(st) = <<>>

\* C3: when every page a fetch loop requested answered 200 with a list, the
\* pages requested are 1..k with k the first short page, and the accumulated
\* result is the concatenation of the bodies of pages 1..k in page order
\* (for fetch_all_prs and for the loop of get_contribution_heatmap).
C3_ConcatenationOfPages ==
  /\ \A st \in {"open", "closed"} :
       (PrFetched(st) /\ AllLists(PrLog(st))) =>
         /\ PagesUpToFirstShort(PrLog(st))
         /\ PrReturned(st) = PrPagesUpTo(PrLog(st), Len(PrLog(st)))
         /\ Cardinality({PrReturned(st)[i].id : i \in 1 .. Len(PrReturned(st))})
              = Len(PrReturned(st))
  /\ (Done("contribution_heatmap") /\ AllLists(log)) =>
         /\ PagesUpToFirstShort(log)
         /\ all_commits = CommitPagesUpTo(log, Len(log))
         /\ Cardinality({all_commits[i].id : i \in 1 .. Len(all_commits)})
              = Len(all_commits)

\* a closed pagination of a full page followed by a short, non-empty one
C3_Witness ==
  /\ Done("pull_requests")
  /\ AllLists(PrLog("closed"))
  /\ Len(PrLog("closed")) = 2
  /\ Len(closed_prs) > PerPage

\* the commits get_commits read: the body of its one response
CommitsRead == CommitBody(1, log[1].resp)

\* the sum of the counts of a mapping
RECURSIVE SumOver(_, _)
SumOver(counts, keys) ==
  IF keys = {} THEN 0
  ELSE LET k == CHOOSE x \in keys : TRUE
       IN counts[k] + SumOver(counts, keys \ {k})

SumCounts(counts) == SumOver(counts, DOMAIN counts)

\* C4 (as claimed): get_commits tallies the commits of every upstream page, so
\* for a commit list that spans several pages its counts sum to the number of
\* commits of all of them, not only to the size of the first response.
C4_TalliesEveryPage ==
  (Done("commits") /\ http_status = 200) =>
    SumCounts(commit_frequency) = Len(CommitsRead) + later_commits

\* C4 (amended): get_commits issues exactly one upstream request, without page
\* or per_page parameter, and tallies the commits of that one response only:
\* its counts sum to the size of the first response, however many commits
\* upstream holds on later pages.
C4_TalliesFirstResponseOnly ==
  Done("commits") =>
    /\ Len(log) = 1
    /\ log[1].resource = "commits" /\ log[1].page = 0 /\ log[1].per_page = 0
    /\ http_status = 200 => SumCounts(commit_frequency) = Len(CommitsRead)

\* upstream holds commits beyond the response that was tallied
C4_Witness ==
  /\ Done("commits")
  /\ http_status = 200
  /\ later_commits > 0
  /\ SumCounts(commit_frequency) > 1

MinOf(S) == CHOOSE o \in S : \A p \in S : o <= p
MaxOf(S) == CHOOSE o \in S : \A p \in S : o >= p

\* `result` has one record per calendar day from the earliest to the latest
\* day of `commits`, in ascending order, each with the number of commits of
\* that day; it is empty when there is no commit
DailyFill(result, commits) ==
  IF commits = <<>> THEN result = <<>>
  ELSE LET ordinals == [j \in 1 .. Len(commits) |-> ToOrdinal(commits[j].date)]
           days == {ordinals[j] : j \in 1 .. Len(commits)}
           lo == MinOf(days)
           hi == MaxOf(days)
       IN /\ Len(result) = hi - lo + 1
          /\ \A i \in 1 .. Len(result) :
               LET dt == fromisoformat(result[i].date)
               IN /\ Len(result[i].date) = 10
                  /\ strftime(dt, "%Y-%m-%d") = result[i].date
                  /\ dt.m \in 1 .. 12
                  /\ dt.d \in 1 .. DaysInMonth(dt.y, dt.m)
                  /\ ToOrdinal(dt) = lo + i - 1
                  /\ result[i].commits =
                       IF (lo + i - 1) \in days
                       THEN Cardinality({j \in 1 .. Len(commits) : ordinals[j] = lo + i - 1})
                       ELSE 0

\* C5: the heatmap is the ascending sequence of every calendar day from the
\* earliest to the latest commit date, of length (max - min) in days + 1, each
\* day once with its tally or 0; it is empty when no commit was retrieved.
C5_HeatmapCoversEveryDay ==
  (Done("contribution_heatmap") /\ http_status = 200) => DailyFill(heatmap, all_commits)

\* a heatmap over two pages of commits that has a day without commits and
\* crosses the end of February of a leap year
C5_Witness ==
  /\ Done("contribution_heatmap")
  /\ http_status = 200
  /\ Len(log) = 2
  /\ \E i \in 1 .. Len(heatmap) : heatmap[i].commits = 0
  /\ \E i \in 1 .. Len(heatmap) :
       heatmap[i].date = strftime([y |-> 2024, m |-> 2, d |-> 29], "%Y-%m-%d")
  /\ \E i \in 1 .. Len(heatmap) : heatmap[i].commits > 1

\* C6: when page n of the heatmap's commit list answers with a non-200
\* status, fetching stops, the request is answered 200 and the heatmap is that
\* of the commits of pages 1..n-1 (the empty sequence for n = 1).
C6_HeatmapKeepsEarlierPages ==
  (Done("contribution_heatmap") /\ Last(log).resp.status # 200) =>
    /\ http_status = 200
    /\ \A i \in 1 .. Len(log) : log[i].page = i
    /\ all_commits = CommitPagesUpTo(log, Len(log) - 1)
    /\ Len(all_commits) = PerPage * (Len(log) - 1)
    /\ DailyFill(heatmap, all_commits)
    /\ Len(log) = 1 => heatmap = <<>>

\* the second page fails after a full first page
C6_Witness ==
  /\ Done("contribution_heatmap")
  /\ Len(log) = 2
  /\ Last(log).resp.status # 200
  /\ http_status = 200
  /\ Len(heatmap) > 1

\* the bucket a commit of get_commits is counted in
SameBucket(d1, d2) ==
  \E k \in DOMAIN commit_frequency :
    k = strftime(d1, FormatOf(frequency)) /\ k = strftime(d2, FormatOf(frequency))

DaysBetween(d1, d2) == ToOrdinal(d2) - ToOrdinal(d1)

WeekAnswered == Done("commits") /\ http_status = 200 /\ frequency = "week"

\* C7 (as claimed): with the week granularity a commit dated on a Sunday is
\* counted in the bucket of the following Monday..Saturday of that year, and
\* not in the bucket of the preceding Saturday.
C7_WeekStartsOnSunday ==
  WeekAnswered =>
    \A i, j \in 1 .. Len(CommitsRead) :
      LET a == CommitsRead[i].date
          b == CommitsRead[j].date
      IN Weekday(a) = 6 =>
           /\ (a.y = b.y /\ DaysBetween(a, b) \in 1 .. 6) => SameBucket(a, b)
           /\ DaysBetween(a, b) = -1 => ~SameBucket(a, b)

\* C7 (amended): the week-of-year of the bucket key is computed with Monday as
\* the first day of the week: a commit dated on a Monday is counted in the
\* bucket of the following Tuesday..Sunday of that year, and not in the bucket
\* of the preceding Sunday.
C7_WeekStartsOnMonday ==
  WeekAnswered =>
    \A i, j \in 1 .. Len(CommitsRead) :
      LET a == CommitsRead[i].date
          b == CommitsRead[j].date
      IN Weekday(a) = 0 =>
           /\ (a.y = b.y /\ DaysBetween(a, b) \in 1 .. 6) => SameBucket(a, b)
           /\ DaysBetween(a, b) = -1 => ~SameBucket(a, b)

\* a Monday and the Sunday that follows it were counted together
C7_Witness ==
  /\ WeekAnswered
  /\ \E i, j \in 1 .. Len(CommitsRead) :
       /\ Weekday(CommitsRead[i].date) = 0
       /\ DaysBetween(CommitsRead[i].date, CommitsRead[j].date) = 6
       /\ CommitsRead[i].date.y = CommitsRead[j].date.y
       /\ commit_frequency[strftime(CommitsRead[i].date, "%Y-%W")] = 2

\* C8 (as claimed): a granularity other than day, week, month is answered with
\* the invalid-granularity error whatever upstream answers, and before any
\* upstream request is issued.
C8_InvalidFrequencyFirst ==
  (Done("commits") /\ frequency \notin {"day", "week", "month"}) =>
    /\ http_status = 400
    /\ detail = "Invalid frequency"
    /\ log = <<>>

\* C8 (amended): the granularity is validated after the upstream request: a
\* granularity other than day, week, month is answered with the
\* invalid-granularity error when upstream answered 200 (whatever the body),
\* and with the fetch-failure error when upstream answered another status.
C8_InvalidFrequencyAfterFetch ==
  (Done("commits") /\ frequency \notin {"day", "week", "month"}) =>
    /\ Len(log) = 1
    /\ http_status = 400
    /\ log[1].resp.status = 200 => detail = "Invalid frequency"
    /\ log[1].resp.status # 200 => detail = "Failed to fetch commits"
    /\ commit_frequency = EmptyCounts

\* an invalid granularity reported although the upstream body is no list
C8_Witness ==
  /\ Done("commits")
  /\ frequency = "year"
  /\ detail = "Invalid frequency"
  /\ log[1].resp.kind = "dict"

\* the non-empty segments of the cleaned URL
NonEmptySegments(u) ==
  LET parts == SplitSlash(CleanUrl(u), <<>>)
  IN {i \in 1 .. Len(parts) : parts[i] # <<>>}

\* C9 (as claimed): parse_github_url fails for every input with fewer than two
\* non-empty '/'-separated segments after stripping; whenever it returns an
\* (owner, repo) pair, both are non-empty.
C9_OwnerAndRepoNonEmpty ==
  Done("parse_github_url") =>
    /\ Cardinality(NonEmptySegments(url)) < 2 => ~parsed.ok
    /\ parsed.ok => (parsed.owner # <<>> /\ parsed.repo # <<>>)

\* C10: get_commits counts every commit in exactly one bucket: the counts of
\* the mapping it returns sum to the number of commits aggregated, every
\* commit's bucket is present with the number of commits that have its key,
\* and no bucket has count 0.
C10_CountsSumToCommits ==
  (Done("commits") /\ http_status = 200) =>
    /\ frequency \in {"day", "week", "month"}
    /\ SumCounts(commit_frequency) = Len(CommitsRead)
    /\ \A k \in DOMAIN commit_frequency : commit_frequency[k] >= 1
    /\ \A i \in 1 .. Len(CommitsRead) :
         LET k == strftime(CommitsRead[i].date, FormatOf(frequency))
         IN /\ k \in DOMAIN commit_frequency
            /\ commit_frequency[k] =
                 Cardinality({j \in 1 .. Len(CommitsRead) :
                                strftime(CommitsRead[j].date, FormatOf(frequency)) = k})

\* two commits of the same month counted together
C10_Witness ==
  /\ Done("commits")
  /\ http_status = 200
  /\ frequency = "month"
  /\ Len(CommitsRead) = 2
  /\ \E k \in DOMAIN commit_frequency : commit_frequency[k] = 2

\* a response that ends a fetch loop: non-200, or fewer than 100 items (an
\* empty page and a body that is no list included)
EndsLoop(r) == r.status # 200 \/ r.len < PerPage

\* the requests of a fetch loop so far are for pages 1, 2, 3, ... in order,
\* each with per_page = 100, and none follows a response that ends the loop;
\* the loop is running exactly while no such response has come, whatever the
\* page number (there is no cap), and then asks for the next page
ConsecutivePages(entries, running, started) ==
  /\ \A i \in 1 .. Len(entries) :
       /\ entries[i].page = i
       /\ entries[i].per_page = PerPage
       /\ (i < Len(entries)) => ~EndsLoop(entries[i].resp)
  /\ started => (running <=> (entries = <<>> \/ ~EndsLoop(Last(entries).resp)))
  /\ running => page = Len(entries) + 1
  /\ ~started => entries = <<>>

PaginationSteps ==
  /\ ConsecutivePages(PrLog("open"), pc = "fetch_open", endpoint = "pull_requests")
  /\ ConsecutivePages(PrLog("closed"), pc = "fetch_closed",
                      endpoint = "pull_requests" /\ pc \in {"fetch_closed", "done"})
  /\ ConsecutivePages(IF endpoint = "contribution_heatmap" THEN log ELSE <<>>,
                      pc = "fetch_commits", endpoint = "contribution_heatmap")

====
